---- MODULE Spec2Model ----
(***************************************************************************)
(* DrainGuard AI sensor-node firmware.  The repository holds three         *)
(* alternative Arduino sketches for the same node:                         *)
(*   "main"    hardware/esp32_code/main.ino   (text report, status string) *)
(*   "sensors" the NewPing/JSON sketch with checkSensors()                 *)
(*   "server"  the pulseIn/JSON sketch that also starts a WiFiServer       *)
(* One of them is flashed; setup() runs once and loop() runs forever.      *)
(*                                                                         *)
(* Distances are kept in thousandths of a centimetre (fixed point), so     *)
(* that duration * 0.034 / 2 is the exact integer duration * 17.           *)
(***************************************************************************)
EXTENDS Integers, Sequences, FiniteSets, TLC

VARIABLES
    sketch,           \* which sketch is flashed on the node
    pc,               \* position of the single thread of control
    wifi,             \* WiFi.status() == WL_CONNECTED (environment)
    echo,             \* whether the ranging sensor answers this ping (environment)
    elapsed,          \* time spent so far inside the pulse measurement
    duration,         \* echo pulse width in microseconds, 0 = no pulse seen
    distance,         \* measured distance, thousandths of a centimetre
    gasValue,         \* analogRead of the gas pin
    status,           \* main.ino: String status
    anomalyDetected,  \* JSON sketches: bool anomalyDetected
    serial            \* the most recent lines written to the serial channel

vars == <<sketch, pc, wifi, echo, elapsed, duration, distance, gasValue,
          status, anomalyDetected, serial>>

----------------------------------------------------------------------------
(* Bounds of the model *)

\* number of serial lines the observer of the serial channel retains
MaxLog == 3

\* length of the pulse-measurement timeout, in model time steps
PulseInTimeout == 1

\* echo pulse widths (microseconds) a sensor that answers can produce:
\* 587us = 9.979cm, 589us = 10.013cm, 5883us = 100.011cm
EchoDurations == {587, 589, 5883}

\* analog readings of the gas pin (12-bit ADC): at and above the gas
\* threshold of the sketch that is flashed
GasReadings(sk) == IF sk = "main" THEN {2500, 2600} ELSE {400, 500}

Sketches == {"main", "sensors", "server"}

----------------------------------------------------------------------------
(* Program constants *)

\* fixed-point scale: thousandths of a centimetre
Scale == 1000

\* duration * 0.034 / 2 centimetres = duration * 17 thousandths
HalfSoundSpeed == 17

\* main.ino thresholds
MainLowThreshold == 10
MainHighThreshold == 100
MainGasThreshold == 2500

\* checkSensors() sketch thresholds
distanceThreshold == 30
gasThreshold == 400

\* WiFiServer sketch threshold
ServerGasThreshold == 400

\* NewPing: microseconds of round trip per centimetre
US_ROUNDTRIP_CM == 57

----------------------------------------------------------------------------
(* Pure functions of the sketches *)

\* distance_cm = duration * 0.034 / 2  (float, main.ino)
DistanceCm(dur) == dur * HalfSoundSpeed

\* long distance = (duration * 0.034) / 2  (truncated to whole centimetres)
DistanceLong(dur) == ((dur * HalfSoundSpeed) \div Scale) * Scale

\* sonar.ping_cm(): 0 when no echo, otherwise the rounded whole centimetres, at least 1
PingCm(dur) ==
    IF dur = 0 THEN 0
    ELSE LET cm == (dur + (US_ROUNDTRIP_CM \div 2)) \div US_ROUNDTRIP_CM
         IN  (IF cm < 1 THEN 1 ELSE cm) * Scale

\* Serial.println(float): two decimals, rounded; the result is in hundredths
PrintFloat(d) == (d + 5) \div 10

\* JSON sketches: the whole-centimetre value as written in the record, in hundredths
PrintWhole(d) == d \div 10

\* variant: status kept from the previous pass (a static or file-scope status)
InitialStatusCarried(old) == old

\* String status = "NORMAL"; a fresh local on every pass of loop()
InitialStatus(old) == "NORMAL"

\* bool anomalyDetected = false; a fresh local on every call of checkSensors()
InitialAnomaly(old) == FALSE

\* variant: the gas check placed before the distance checks
ClassifyGasFirst(s0, d, g, low, high, gasT) ==
    LET s1 == IF g > gasT THEN "GAS LEVEL HIGH" ELSE s0
    IN  IF d < low THEN "BLOCKAGE WARNING"
        ELSE IF d > high THEN "LEAKAGE DETECTED"
        ELSE s1

\* variant: the two distance comparisons exchanged
ClassifySwapped(s0, d, g, low, high, gasT) ==
    LET s1 == IF d > high THEN "BLOCKAGE WARNING"
              ELSE IF d < low THEN "LEAKAGE DETECTED"
              ELSE s0
    IN  IF g > gasT THEN "GAS LEVEL HIGH" ELSE s1

\* the anomaly logic of main.ino, with the thresholds as parameters
Classify(s0, d, g, low, high, gasT) ==
    LET s1 == IF d < low THEN "BLOCKAGE WARNING"
              ELSE IF d > high THEN "LEAKAGE DETECTED"
              ELSE s0
    IN  IF g > gasT THEN "GAS LEVEL HIGH" ELSE s1

\* the anomaly logic of checkSensors()
CheckAnomaly(a0, d, g) ==
    LET a1 == IF d < distanceThreshold * Scale THEN TRUE ELSE a0
    IN  IF g > gasThreshold THEN TRUE ELSE a1

\* the alert lines checkSensors() prints before the JSON record
CheckAlerts(d, g) ==
    (IF d < distanceThreshold * Scale THEN {"Flood risk"} ELSE {}) \cup
    (IF g > gasThreshold THEN {"Gas leakage"} ELSE {})

\* bool anomalyDetected = (gasValue > 400)
ServerAnomaly(g) == g > ServerGasThreshold

----------------------------------------------------------------------------
(* The serial channel *)

Line(kind, d, g, s, a, al) ==
    [kind |-> kind, distance |-> d, gasValue |-> g, status |-> s,
     anomalyDetected |-> a, alerts |-> al]

TextLine(kind) == Line(kind, 0, 0, "", FALSE, {})

\* Serial.println: the observer keeps the last MaxLog lines
Println(log, line) ==
    LET all == Append(log, line)
    IN  IF Len(all) > MaxLog THEN Tail(all) ELSE all

Last(log) == log[Len(log)]

IsTelemetry(line) == line.kind = "telemetry"

----------------------------------------------------------------------------
Init ==
    /\ sketch \in Sketches
    /\ pc = "setup"
    /\ wifi = FALSE
    /\ echo = FALSE
    /\ elapsed = 0
    /\ duration = 0
    /\ distance = 0
    /\ gasValue = 0
    /\ status = ""
    /\ anomalyDetected = FALSE
    /\ serial = <<>>

\* setup() of main.ino: pins, then the start banner
SetupMain ==
    /\ pc = "setup"
    /\ sketch = "main"
    /\ serial' = Println(serial, TextLine("boot"))
    /\ pc' = "loop"
    /\ UNCHANGED <<sketch, wifi, echo, elapsed, duration, distance, gasValue,
                   status, anomalyDetected>>

\* setup() of the JSON sketches up to WiFi.begin()
SetupWifi ==
    /\ pc = "setup"
    /\ sketch \in {"sensors", "server"}
    /\ pc' = "wifi_check"
    /\ UNCHANGED <<sketch, wifi, echo, elapsed, duration, distance, gasValue,
                   status, anomalyDetected, serial>>

\* while (WiFi.status() != WL_CONNECTED): the test
WifiCheck ==
    /\ pc = "wifi_check"
    /\ IF wifi
       THEN /\ serial' = Println(serial, TextLine("connected"))
            /\ pc' = "loop"
       ELSE /\ pc' = "wifi_delay"
            /\ UNCHANGED serial
    /\ UNCHANGED <<sketch, wifi, echo, elapsed, duration, distance, gasValue,
                   status, anomalyDetected>>

\* while (WiFi.status() != WL_CONNECTED): delay(1000); println("Connecting to WiFi...")
WifiDelay ==
    /\ pc = "wifi_delay"
    /\ serial' = Println(serial, TextLine("connecting"))
    /\ pc' = "wifi_check"
    /\ UNCHANGED <<sketch, wifi, echo, elapsed, duration, distance, gasValue,
                   status, anomalyDetected>>

\* the access point accepts the station (environment; may never happen)
WifiConnects ==
    /\ sketch \in {"sensors", "server"}
    /\ ~wifi
    /\ wifi' = TRUE
    /\ UNCHANGED <<sketch, pc, echo, elapsed, duration, distance, gasValue,
                   status, anomalyDetected, serial>>

\* start of a pass of loop(): the trigger pulse, then the pulse measurement begins
LoopTrigger ==
    /\ pc = "loop"
    /\ echo' \in BOOLEAN
    /\ elapsed' = 0
    /\ pc' = "pulse_wait"
    /\ UNCHANGED <<sketch, wifi, duration, distance, gasValue, status,
                   anomalyDetected, serial>>

\* variant: a pulse measurement without a timeout
TimedOutNever(e) == FALSE

\* pulseIn gives up once its timeout has elapsed
TimedOut(e) == e >= PulseInTimeout

\* time passes while the pulse measurement waits for the echo
PulseTick ==
    /\ pc = "pulse_wait"
    /\ elapsed < PulseInTimeout
    /\ elapsed' = elapsed + 1
    /\ UNCHANGED <<sketch, pc, wifi, echo, duration, distance, gasValue, status,
                   anomalyDetected, serial>>

\* the rest of loop() of main.ino once pulseIn has returned dur
MainBody(dur, gas) ==
    LET d == DistanceCm(dur)
        s == Classify(InitialStatus(status), d, gas, MainLowThreshold * Scale,
                      MainHighThreshold * Scale, MainGasThreshold)
    IN  /\ duration' = dur
        /\ distance' = d
        /\ gasValue' = gas
        /\ status' = s
        /\ serial' = Println(serial, Line("telemetry", PrintFloat(d), gas, s, FALSE, {}))
        /\ UNCHANGED anomalyDetected

\* checkSensors() once the ping has returned
CheckSensors(dur, gas) ==
    LET d == PingCm(dur)
        a == CheckAnomaly(InitialAnomaly(anomalyDetected), d, gas)
    IN  /\ duration' = dur
        /\ distance' = d
        /\ gasValue' = gas
        /\ anomalyDetected' = a
        /\ serial' = Println(serial, Line("telemetry", PrintWhole(d), gas, "", a,
                                          CheckAlerts(d, gas)))
        /\ UNCHANGED status

\* the rest of loop() of the WiFiServer sketch once pulseIn has returned dur
ServerBody(dur, gas) ==
    LET d == DistanceLong(dur)
        a == ServerAnomaly(gas)
    IN  /\ duration' = dur
        /\ distance' = d
        /\ gasValue' = gas
        /\ anomalyDetected' = a
        /\ serial' = Println(serial, Line("telemetry", PrintWhole(d), gas, "", a, {}))
        /\ UNCHANGED status

\* everything after the pulse measurement, up to the delay that ends the pass
FinishIteration(dur) ==
    /\ \E gas \in GasReadings(sketch) :
          CASE sketch = "main"    -> MainBody(dur, gas)
            [] sketch = "sensors" -> CheckSensors(dur, gas)
            [] sketch = "server"  -> ServerBody(dur, gas)
    /\ pc' = "loop"
    /\ UNCHANGED <<sketch, wifi, echo, elapsed>>

\* the echo pulse arrives in time: the measurement returns its width
PulseEcho ==
    /\ pc = "pulse_wait"
    /\ echo
    /\ elapsed < PulseInTimeout
    /\ \E dur \in EchoDurations : FinishIteration(dur)

\* no pulse within the timeout: the measurement returns 0
PulseTimeout ==
    /\ pc = "pulse_wait"
    /\ TimedOut(elapsed)
    /\ FinishIteration(0)

\* the steps the processor takes
Program ==
    \/ SetupMain
    \/ SetupWifi
    \/ WifiCheck
    \/ WifiDelay
    \/ LoopTrigger
    \/ PulseTick
    \/ PulseEcho
    \/ PulseTimeout

Next ==
    \/ SetupMain
    \/ SetupWifi
    \/ WifiCheck
    \/ WifiDelay
    \/ WifiConnects
    \/ LoopTrigger
    \/ PulseTick
    \/ PulseEcho
    \/ PulseTimeout

Spec == Init /\ [][Next]_vars

\* the processor never stops executing; the network and the sensor owe nothing
FairSpec == Init /\ [][Next]_vars /\ WF_vars(Program)

----------------------------------------------------------------------------
(* Properties *)

Emitted == Len(serial) > 0 /\ IsTelemetry(Last(serial))

TelemetryIdx == {i \in DOMAIN serial : IsTelemetry(serial[i])}

\* C1: in main.ino, whenever the gas value of an iteration is above the gas
\* threshold the emitted status is GAS LEVEL HIGH, whatever the distance was:
\* the gas check runs last and overwrites a blockage or leakage status.
\* (In the checkSensors sketch, gas above its threshold always sets the flag.)
C1_GasOverrides ==
    /\ sketch = "main" =>
          \A i \in TelemetryIdx :
              serial[i].gasValue > MainGasThreshold
                  => serial[i].status = "GAS LEVEL HIGH"
    /\ sketch = "sensors" =>
          \A i \in TelemetryIdx :
              serial[i].gasValue > gasThreshold => serial[i].anomalyDetected

\* a blockage distance and a leakage distance, both reported with gas high
C1_Witness ==
    /\ sketch = "main"
    /\ \E i, j \in TelemetryIdx :
          /\ serial[i].gasValue > MainGasThreshold
          /\ serial[i].distance < MainLowThreshold * 100
          /\ serial[i].distance > 0
          /\ serial[i].status = "GAS LEVEL HIGH"
          /\ serial[j].gasValue > MainGasThreshold
          /\ serial[j].distance > MainHighThreshold * 100
          /\ serial[j].status = "GAS LEVEL HIGH"

\* C2: in main.ino, for a valid distance and a gas value not above the gas
\* threshold the status is BLOCKAGE WARNING exactly when the distance is below
\* the low threshold, LEAKAGE DETECTED exactly when it is above the high
\* threshold and NORMAL otherwise; with thresholds low=30, high=100, gas=400
\* and gas=300 the decision logic gives NORMAL at 50cm (and at 30cm and 100cm),
\* BLOCKAGE WARNING at 8cm and LEAKAGE DETECTED at 150cm.
C2_DistanceClasses ==
    /\ (sketch = "main" /\ duration > 0 /\ gasValue <= MainGasThreshold) =>
          /\ status = "BLOCKAGE WARNING" <=> distance < MainLowThreshold * Scale
          /\ status = "LEAKAGE DETECTED" <=> distance > MainHighThreshold * Scale
          /\ status = "NORMAL" <=> /\ distance >= MainLowThreshold * Scale
                                   /\ distance <= MainHighThreshold * Scale
    /\ LET scenario(cm) == Classify(InitialStatus(status), cm * Scale, 300,
                                    30 * Scale, 100 * Scale, 400)
       IN  /\ scenario(50) = "NORMAL"
           /\ scenario(30) = "NORMAL"
           /\ scenario(100) = "NORMAL"
           /\ scenario(8) = "BLOCKAGE WARNING"
           /\ scenario(150) = "LEAKAGE DETECTED"

\* all three classes have been reported with the gas value at its threshold
C2_Witness ==
    /\ sketch = "main"
    /\ Len(serial) = 3
    /\ \A i \in DOMAIN serial : IsTelemetry(serial[i]) /\ serial[i].gasValue = MainGasThreshold
    /\ serial[1].status = "BLOCKAGE WARNING"
    /\ serial[2].status = "NORMAL"
    /\ serial[3].status = "LEAKAGE DETECTED"
    /\ duration = 5883

\* C3 (as claimed): an iteration whose ranging pulse timed out raises no
\* distance-based alarm: its status is GAS LEVEL HIGH or NORMAL by the gas
\* value alone, and the anomaly flag is set by the gas value alone.
C3_Claim ==
    (Emitted /\ duration = 0) =>
        /\ sketch = "main" =>
              status = IF gasValue > MainGasThreshold THEN "GAS LEVEL HIGH" ELSE "NORMAL"
        /\ sketch = "sensors" => anomalyDetected = (gasValue > gasThreshold)

\* C4 (as claimed): the telemetry record of an iteration whose ranging pulse
\* timed out carries a negative sentinel in its distance field.
C4_Claim ==
    (Emitted /\ duration = 0) => Last(serial).distance < 0

\* C5: no step of a sampling iteration blocks for ever: a started pulse
\* measurement leads to the telemetry record of that iteration, also when the
\* echo never arrives (the measurement then returns 0 and the iteration goes
\* on), and every finished iteration is followed by the next one.
C5_NoIndefiniteBlocking ==
    /\ (pc = "pulse_wait") ~> (pc = "loop" /\ Emitted)
    /\ (pc = "pulse_wait" /\ ~echo) ~> (pc = "loop" /\ Emitted /\ duration = 0)
    /\ (pc = "loop") ~> (pc = "pulse_wait")

\* an iteration whose echo never arrived has emitted its record
C5_Witness ==
    /\ pc = "loop"
    /\ ~echo
    /\ elapsed = PulseInTimeout
    /\ duration = 0
    /\ Emitted

\* C6 (as claimed): the loop is supervised: at any time the start of a loop
\* iteration (where the watchdog is fed) or a reboot into setup() lies ahead.
C6_Claim == []<>(pc = "loop" \/ pc = "setup")

\* the ranging samples of the iteration: the sketches take one ping per pass
Batch == <<duration>>

\* AllInvalid, the negative sentinel of a batch without a valid sample (-1.00)
AllInvalid == 0 - Scale

\* the median filter of the claim: the converted element at index valid_count/2
\* of the ascending-sorted valid samples, AllInvalid when there is none
FilteredDistance(batch, Convert(_)) ==
    LET validIdx == {i \in DOMAIN batch : batch[i] > 0}
        below(x) == Cardinality({i \in validIdx : batch[i] < x})
        upto(x)  == Cardinality({i \in validIdx : batch[i] <= x})
        mid      == Cardinality(validIdx) \div 2
    IN  IF validIdx = {} THEN AllInvalid
        ELSE Convert(CHOOSE x \in {batch[i] : i \in validIdx} :
                         below(x) <= mid /\ mid < upto(x))

\* C7 (as claimed): the distance of an iteration is the median of the valid
\* samples of its batch, and AllInvalid when every sample of the batch timed out.
C7_Claim ==
    Emitted =>
        distance = CASE sketch = "main"    -> FilteredDistance(Batch, DistanceCm)
                     [] sketch = "sensors" -> FilteredDistance(Batch, PingCm)
                     [] sketch = "server"  -> FilteredDistance(Batch, DistanceLong)

\* C8 (as claimed): from the second record on, the reported gas value is
\* 0.2 * raw + 0.8 * previous reported value (to within rounding to a unit).
C8_Claim ==
    (Len(serial) >= 2 /\ Emitted /\ IsTelemetry(serial[Len(serial) - 1])) =>
        LET prev == serial[Len(serial) - 1].gasValue
            cur  == Last(serial).gasValue
            diff == 5 * cur - (gasValue + 4 * prev)
        IN  diff > -5 /\ diff < 5

\* C9: the status, the anomaly flag and the alerts of a record are determined
\* by the distance and gas value of that record alone: two records with the
\* same readings agree, whatever was measured or reported in between.
C9_PureStatus ==
    \A i, j \in TelemetryIdx :
        (serial[i].distance = serial[j].distance /\ serial[i].gasValue = serial[j].gasValue)
            => /\ serial[i].status = serial[j].status
               /\ serial[i].anomalyDetected = serial[j].anomalyDetected
               /\ serial[i].alerts = serial[j].alerts

\* the same readings reported twice with a differently classified record between
C9_Witness ==
    /\ Len(serial) = 3
    /\ \A i \in DOMAIN serial : IsTelemetry(serial[i])
    /\ serial[1].distance = serial[3].distance
    /\ serial[1].gasValue = serial[3].gasValue
    /\ \/ serial[2].status # serial[1].status
       \/ serial[2].anomalyDetected # serial[1].anomalyDetected
    /\ serial[1].status \in {"NORMAL", ""}
    /\ ~serial[1].anomalyDetected

\* C10 (as claimed): the node emits its first telemetry record whether or not
\* a WiFi connection is ever established.
C10_Claim == <>Emitted

====
